---- MODULE Spec2Model ----
(***************************************************************************)
(* GridUniverseEnv (core/envs/griduniverse_env.py) as a state machine.     *)
(*                                                                         *)
(* The environment object is the state: the layout fixed by the            *)
(* constructor (x_max, y_max, wall_indices, initial_states, goal_states,   *)
(* lava_states and the fruit templates lemons / apples / melons), the      *)
(* episode state (current_state, previous_state, done, last_n_states, the  *)
(* working fruit lists) and reward_matrix.  The operations are             *)
(* look_step_ahead, _step and _reset.  ret holds what the last call        *)
(* returned, args what look_step_ahead was called with.                    *)
(*                                                                         *)
(* Python lists whose order and multiplicity the code never reads (the     *)
(* constructor rejects duplicates) are sets here; numpy arrays are         *)
(* functions on 0 .. size-1.                                               *)
(***************************************************************************)
EXTENDS Integers, Sequences, FiniteSets, TLC

VARIABLES
    x_max, y_max,            \* num columns, num rows
    wall_indices,            \* blocked states
    initial_states,          \* possible starting states
    goal_states, lava_states,\* terminal states
    lemons, apples, melons,  \* fruit templates
    current_lemons, current_apples, current_melons, \* working fruit lists
    reward_matrix,           \* one reward per state
    current_state, previous_state, done,
    last_n_states,           \* history of visited coordinates
    ret,                     \* what the last call returned
    args,                    \* arguments of the last step / look_step_ahead
    n_resets,                \* resets so far (bounds the run)
    restored,                \* fruit cells that were collected in the episode the last reset ended
    n_steps,                 \* steps since the last reset
    ctor,                    \* the constructor call: its arguments and the exception it raised
    np_random,               \* seed of the environment's own generator (self.np_random)
    py_random,               \* state of the generator of Python's random module
    sampled,                 \* start states sampled by reset since the last seed
    twin,                    \* a second environment of the same layout: its seed and its samples
    td,                      \* a run of td_episodic_n_step_evaluation: its locals and its position
    gridworld                \* an environment of the simple class GridWorldEnv and its last call

layout == <<x_max, y_max, wall_indices, initial_states, goal_states, lava_states,
            lemons, apples, melons>>
fruit == <<current_lemons, current_apples, current_melons>>
episode == <<current_state, previous_state, done, last_n_states>>
rng == <<np_random, py_random, sampled, twin>>
vars == <<layout, fruit, reward_matrix, episode, ret, args, n_resets, restored,
          n_steps, ctor, rng, td, gridworld>>

----------------------------------------------------------------------------
(* Bounds of the model *)

\* look-ahead specification: grids of at most MaxCells cells
MaxCells == 6
\* entities (walls, starts, goals, lava, fruit) handed to the constructor
MaxEntities == 1
\* steps per episode
MaxSteps == 2
\* resets per run
MaxResets == 1
\* history specification: steps of an episode beyond the capacity of the history
MaxOverflow == 2
\* constructor specification: ids handed to the constructor, over all its lists
MaxPlacements == 2
\* seeding specification: states of the generator of the random module
RandomStates == 4

----------------------------------------------------------------------------
(* Program constants *)

\* core.envs.config default_rewards (the module is not among the sources)
MOVEMENT_REWARD == -1
APPLE_REWARD == 1
LEMON_REWARD == -3
MELON_REWARD == 5
TERMINAL_GOAL_REWARD == 10
LAVA_REWARD == -10

num_previous_states_to_store == 500

\* self.np_random, seed = seeding.np_random(55)
DEFAULT_SEED == 55

\* action_descriptors = ['UP', 'RIGHT', 'DOWN', 'LEFT']
UP == 0
RIGHT == 1
DOWN == 2
LEFT == 3
Actions == {UP, RIGHT, DOWN, LEFT}

----------------------------------------------------------------------------
(* World layout *)

\* self.world.size
size == x_max * y_max
States == 0 .. (size - 1)

\* variant: columns first
world_by_columns(s) == <<s \div y_max, s % y_max>>

\* _generate_world: world[s] = (x, y), rows first (y outer, x inner)
world(s) == <<s % x_max, s \div x_max>>

\* variant: RIGHT guarded by the id, not by the column
action_state_to_next_state_id_guard(action, s) ==
    CASE action = UP    -> IF world(s)[2] > 0 THEN s - x_max ELSE s
      [] action = RIGHT -> IF s < (x_max * y_max - 1) THEN s + 1 ELSE s
      [] action = DOWN  -> IF world(s)[2] < (y_max - 1) THEN s + x_max ELSE s
      [] action = LEFT  -> IF world(s)[1] > 0 THEN s - 1 ELSE s

\* the four lambdas of action_state_to_next_state
action_state_to_next_state(action, s) ==
    CASE action = UP    -> IF world(s)[2] > 0 THEN s - x_max ELSE s
      [] action = RIGHT -> IF world(s)[1] < (x_max - 1) THEN s + 1 ELSE s
      [] action = DOWN  -> IF world(s)[2] < (y_max - 1) THEN s + x_max ELSE s
      [] action = LEFT  -> IF world(s)[1] > 0 THEN s - 1 ELSE s

\* variant: the wall grid is never filled
is_wall_never(state) == FALSE

\* _is_wall: wall_grid[state] == 1, wall_grid filled from wall_indices
is_wall(state) == state \in wall_indices

is_lava(state) == state \in lava_states
is_terminal_goal(state) == state \in goal_states
\* variant: lava is not terminal
is_terminal_goal_only(state) == is_terminal_goal(state)

is_terminal(state) == is_lava(state) \/ is_terminal_goal(state)

----------------------------------------------------------------------------
(* Reward model *)

\* _generate_reward_matrix applied to matrix rm: += for the working fruit, then
\* terminal states overwritten (goal first, lava last)
generate_reward_matrix(rm, c_apples, c_lemons, c_melons, goals, lavas) ==
    [s \in DOMAIN rm |->
        IF s \in lavas THEN LAVA_REWARD
        ELSE IF s \in goals THEN TERMINAL_GOAL_REWARD
        ELSE rm[s] + (IF s \in c_apples THEN APPLE_REWARD ELSE 0)
                   + (IF s \in c_lemons THEN LEMON_REWARD ELSE 0)
                   + (IF s \in c_melons THEN MELON_REWARD ELSE 0)]

\* variant: the step cost whatever the matrix holds
reward_function_step_cost(next_state) == MOVEMENT_REWARD

\* reward_function(next_state, collect=True): the reward returned
reward_function(next_state) == reward_matrix[next_state]

holds_fruit(s) == s \in current_lemons \/ s \in current_apples \/ s \in current_melons

\* variant: a collected lemon is filed under the apples
collect_relabels(next_state) ==
    IF holds_fruit(next_state)
    THEN /\ current_lemons' = current_lemons \ {next_state}
         /\ current_apples' = IF next_state \in current_lemons
                              THEN current_apples \cup {next_state}
                              ELSE current_apples \ {next_state}
         /\ current_melons' = IF next_state \in current_lemons \/ next_state \in current_apples
                              THEN current_melons
                              ELSE current_melons \ {next_state}
         /\ reward_matrix' = [reward_matrix EXCEPT ![next_state] = MOVEMENT_REWARD]
    ELSE UNCHANGED <<fruit, reward_matrix>>

\* reward_function(next_state, collect=True): the side effect on the working
\* fruit lists and the reward matrix (if / elif chain: lemons, apples, melons)
collect(next_state) ==
    IF holds_fruit(next_state)
    THEN /\ current_lemons' = current_lemons \ {next_state}
         /\ current_apples' = IF next_state \in current_lemons THEN current_apples
                              ELSE current_apples \ {next_state}
         /\ current_melons' = IF next_state \in current_lemons \/ next_state \in current_apples
                              THEN current_melons
                              ELSE current_melons \ {next_state}
         /\ reward_matrix' = [reward_matrix EXCEPT ![next_state] = MOVEMENT_REWARD]
    ELSE UNCHANGED <<fruit, reward_matrix>>

----------------------------------------------------------------------------
(* Transition function *)

\* variant: the wall test looks at the state the move starts from
look_next_state_wall_of_source(state, action, care_about_terminal) ==
    IF care_about_terminal /\ is_terminal(state)
    THEN state
    ELSE LET next_state == action_state_to_next_state(action, state)
         IN  IF ~is_wall(state) THEN next_state ELSE state

\* variant: terminal states are not short-circuited
look_next_state_not_absorbing(state, action, care_about_terminal) ==
    LET next_state == action_state_to_next_state(action, state)
    IN  IF ~is_wall(next_state) THEN next_state ELSE state

\* variant: terminal states absorb whatever care_about_terminal says
look_next_state_always_absorbing(state, action, care_about_terminal) ==
    IF is_terminal(state)
    THEN state
    ELSE LET next_state == action_state_to_next_state(action, state)
         IN  IF ~is_wall(next_state) THEN next_state ELSE state

\* look_step_ahead: the next state
look_next_state(state, action, care_about_terminal) ==
    IF care_about_terminal /\ is_terminal(state)
    THEN state
    ELSE LET next_state == action_state_to_next_state(action, state)
         IN  IF ~is_wall(next_state) THEN next_state ELSE state

\* look_step_ahead: the returned triple
look_result(op, state, action, care_about_terminal) ==
    LET next_state == look_next_state(state, action, care_about_terminal)
    IN  [op |-> op, next_state |-> next_state,
         reward |-> reward_function(next_state),
         done |-> is_terminal(next_state)]

\* variant: the look-ahead moves the agent
look_effect_moves_agent(r) ==
    /\ ret' = r
    /\ collect(r.next_state)
    /\ current_state' = r.next_state
    /\ UNCHANGED <<layout, previous_state, done, last_n_states, n_resets, restored, n_steps>>

\* look_step_ahead returning r: the collect side effect, nothing else
look_effect(r) ==
    /\ ret' = r
    /\ collect(r.next_state)
    /\ UNCHANGED <<layout, episode, n_resets, restored, n_steps>>

\* look_step_ahead(state, action, care_about_terminal) called from outside
look_step_ahead(state, action, care_about_terminal) ==
    look_effect(look_result("look_step_ahead", state, action, care_about_terminal))

----------------------------------------------------------------------------
(* Lifecycle *)

\* variant: the newest entry is dropped when the history is full
push_history_drops_newest(h, xy) ==
    LET h1 == Append(h, xy)
    IN  IF Len(h1) > num_previous_states_to_store THEN h ELSE h1

\* last_n_states.append(..); pop(0) when over capacity
push_history(h, xy) ==
    LET h1 == Append(h, xy)
    IN  IF Len(h1) > num_previous_states_to_store THEN Tail(h1) ELSE h1

\* _step(action)
\* variant: the step leaves the done flag as it was
step_keeps_done(action) ==
    LET r == look_result("step", current_state, action, TRUE)
    IN  /\ previous_state' = current_state
        /\ current_state' = r.next_state
        /\ done' = done
        /\ collect(r.next_state)
        /\ last_n_states' = push_history(last_n_states, world(r.next_state))
        /\ n_steps' = n_steps + 1
        /\ ret' = r
        /\ UNCHANGED <<layout, n_resets, restored>>

step(action) ==
    LET r == look_result("step", current_state, action, TRUE)
    IN  /\ previous_state' = current_state
        /\ current_state' = r.next_state
        /\ done' = r.done
        /\ collect(r.next_state)
        /\ last_n_states' = push_history(last_n_states, world(r.next_state))
        /\ n_steps' = n_steps + 1
        /\ ret' = r
        /\ UNCHANGED <<layout, n_resets, restored>>

\* variant: the working fruit lists and the history survive the reset
reset_keeps_episode(start) ==
    /\ n_resets < MaxResets
    /\ start \in initial_states
    /\ n_resets' = n_resets + 1
    /\ n_steps' = 0
    /\ done' = FALSE
    /\ previous_state' = start
    /\ current_state' = start
    /\ reward_matrix' = generate_reward_matrix(reward_matrix, apples, lemons, melons,
                                               goal_states, lava_states)
    /\ restored' = (lemons \ current_lemons) \cup (apples \ current_apples)
                        \cup (melons \ current_melons)
    /\ ret' = [op |-> "reset", next_state |-> start, reward |-> 0, done |-> FALSE]
    /\ UNCHANGED <<layout, last_n_states, fruit>>

\* _reset(): random.choice(initial_states), working fruit from the templates,
\* _generate_reward_matrix on the matrix as it stands
reset(start) ==
    /\ n_resets < MaxResets
    /\ start \in initial_states
    /\ n_resets' = n_resets + 1
    /\ n_steps' = 0
    /\ done' = FALSE
    /\ previous_state' = start
    /\ current_state' = start
    /\ last_n_states' = <<>>
    /\ current_lemons' = lemons
    /\ current_apples' = apples
    /\ current_melons' = melons
    /\ reward_matrix' = generate_reward_matrix(reward_matrix, apples, lemons, melons,
                                               goal_states, lava_states)
    /\ restored' = (lemons \ current_lemons) \cup (apples \ current_apples)
                        \cup (melons \ current_melons)
    /\ ret' = [op |-> "reset", next_state |-> start, reward |-> 0, done |-> FALSE]
    /\ UNCHANGED layout

----------------------------------------------------------------------------
(* Construction *)

Kinds == {"wall", "start", "goal", "lava", "apple", "lemon", "melon"}

RECURSIVE SubsetsUpTo(_, _)
SubsetsUpTo(S, k) ==
    IF k = 0 THEN {{}}
    ELSE LET prev == SubsetsUpTo(S, k - 1)
         IN  prev \cup {p \cup {x} : p \in prev, x \in S}

\* constructor arguments: the ids given for each kind of entity, all in the grid
Entities(w, h) == SubsetsUpTo(Kinds \X (0 .. (w * h - 1)), MaxEntities)
Of(P, kind) == {p[2] : p \in {q \in P : q[1] = kind}}

\* grid shapes of at most n cells
GridShapes(n) == {sh \in (1 .. n) \X (1 .. n) : sh[1] * sh[2] <= n}

\* variant: goal states are not tested against the walls
check_specific_collisions_goal_on_wall(walls, starts, goals, lavas, as, ls, ms) ==
    /\ starts \cap walls = {}
    /\ lavas \cap walls = {}
    /\ as \cap ls = {} /\ as \cap ms = {} /\ ls \cap ms = {}
    /\ (as \cup ls \cup ms) \cap walls = {}

\* _check_specific_collisions on the constructed lists
check_specific_collisions(walls, starts, goals, lavas, as, ls, ms) ==
    /\ starts \cap walls = {}
    /\ goals \cap walls = {}
    /\ lavas \cap walls = {}
    /\ as \cap ls = {} /\ as \cap ms = {} /\ ls \cap ms = {}
    /\ (as \cup ls \cup ms) \cap walls = {}

NoArgs == [state |-> -1, action |-> -1, care_about_terminal |-> FALSE]
\* the constructor call is not recorded
NoCall == [grid_shape |-> <<0, 0>>, placements |-> <<>>, custom_world |-> <<>>,
           raised |-> "unrecorded"]
\* no environment of the simple class
NoGridWorld == [x_max |-> 0, y_max |-> 0]
\* no evaluation is running
NoTd == [pc |-> "idle"]
\* no second environment
NoTwin == [np_random |-> -1, sampled |-> <<>>]
\* the generator of the random module is not followed: reset takes any start
untracked_rng == py_random = 0 /\ sampled = <<>> /\ twin = NoTwin
\* neither is the constructor call
untracked == ctor = NoCall /\ untracked_rng

\* __init__(grid_shape=(w, h), initial_state, goal_states, lava_states, walls,
\* lemons, melons, apples) ending without an exception
construct(w, h, P) ==
    LET walls  == Of(P, "wall")
        starts == IF Of(P, "start") = {} THEN {0} ELSE Of(P, "start")
        goals  == IF Of(P, "goal") = {} THEN {w * h - 1} ELSE Of(P, "goal")
        lavas  == Of(P, "lava")
        rm0    == generate_reward_matrix([s \in 0 .. (w * h - 1) |-> MOVEMENT_REWARD],
                                         Of(P, "apple"), Of(P, "lemon"), Of(P, "melon"),
                                         goals, lavas)
    IN  /\ check_specific_collisions(walls, starts, goals, lavas,
                                     Of(P, "apple"), Of(P, "lemon"), Of(P, "melon"))
        /\ x_max = w /\ y_max = h
        /\ wall_indices = walls
        /\ initial_states = starts
        /\ goal_states = goals
        /\ lava_states = lavas
        /\ lemons = Of(P, "lemon") /\ apples = Of(P, "apple") /\ melons = Of(P, "melon")
        /\ current_lemons = lemons /\ current_apples = apples /\ current_melons = melons
        /\ current_state \in starts
        /\ previous_state = current_state
        /\ reward_matrix = [s \in 0 .. (w * h - 1) |->
                               IF s \in lavas THEN -10
                               ELSE IF s \in goals THEN 10
                               ELSE rm0[s]]
        /\ last_n_states = <<>>
        /\ done = FALSE
        /\ ret = [op |-> "init", next_state |-> current_state, reward |-> 0, done |-> FALSE]
        /\ args = NoArgs
        /\ n_resets = 0
        /\ restored = {}
        /\ n_steps = 0
        /\ np_random = DEFAULT_SEED

----------------------------------------------------------------------------
(* Specifications *)

\* Episodes run on the grids of at most 2 x 2 cells
EpisodeShapes == {<<1, 1>>, <<2, 1>>, <<1, 2>>, <<2, 2>>}

Init ==
    /\ \E sh \in EpisodeShapes : \E P \in Entities(sh[1], sh[2]) : construct(sh[1], sh[2], P)
    /\ untracked
    /\ td = NoTd /\ gridworld = NoGridWorld

\* args records the arguments of a step; Spec does not record those of the
\* hypothetical look_step_ahead calls (SpecLook does)
Step ==
    \E action \in Actions :
        /\ n_steps < MaxSteps
        /\ step(action)
        /\ args' = [state |-> current_state, action |-> action, care_about_terminal |-> TRUE]
        /\ UNCHANGED <<ctor, td, gridworld, rng>>
Reset == \E start \in initial_states : reset(start) /\ args' = NoArgs /\ UNCHANGED <<ctor, td, gridworld, rng>>
\* a call of look_step_ahead with any arguments; calls that return the same
\* triple have the same effect
LookStepAhead ==
    \E r \in {look_result("look_step_ahead", state, action, care) :
                state \in States, action \in Actions, care \in BOOLEAN} :
        look_effect(r) /\ args' = NoArgs /\ UNCHANGED <<ctor, td, gridworld, rng>>

Next == Step \/ Reset \/ LookStepAhead

Spec == Init /\ [][Next]_vars

\* look_step_ahead as a function of the layout: one call on a fresh environment
InitLook ==
    /\ \E sh \in GridShapes(MaxCells) : \E P \in Entities(sh[1], sh[2]) :
            construct(sh[1], sh[2], P)
    /\ untracked
    /\ td = NoTd /\ gridworld = NoGridWorld

LookOnce ==
    /\ ret.op = "init"
    /\ \E state \in States, action \in Actions, care \in BOOLEAN :
        /\ look_step_ahead(state, action, care)
        /\ args' = [state |-> state, action |-> action, care_about_terminal |-> care]
        /\ UNCHANGED <<ctor, td, gridworld, rng>>

NextLook == LookOnce

SpecLook == InitLook /\ [][NextLook]_vars

\* the history over long episodes: a one-cell grid and a corridor of two cells
\* (start 0, goal 1), so that histories stay few while they grow past capacity
HistoryShapes == {<<1, 1>>, <<2, 1>>}

InitHistory ==
    /\ \E sh \in HistoryShapes : construct(sh[1], sh[2], {})
    /\ untracked
    /\ td = NoTd /\ gridworld = NoGridWorld

LongStep ==
    \E action \in Actions :
        /\ n_steps < num_previous_states_to_store + MaxOverflow
        /\ step(action)
        /\ args' = NoArgs
        /\ UNCHANGED <<ctor, td, gridworld, rng>>

NextHistory == LongStep \/ Reset

SpecHistory == InitHistory /\ [][NextHistory]_vars

\* action arguments of any integer value: action_state_to_next_state[action]
\* is Python list indexing on a list of four, so -4 .. -1 count from the end
\* and every other value outside 0 .. 3 raises IndexError
ActionInputs == -5 .. 4
list_index(action) == IF action < 0 THEN action + Cardinality(Actions) ELSE action
\* the list is indexed unless the terminal branch of look_step_ahead is taken
raises_index_error(state, action, care_about_terminal) ==
    /\ ~(care_about_terminal /\ is_terminal(state))
    /\ (action < -Cardinality(Actions) \/ action > Cardinality(Actions) - 1)
raised(exception, state) == [op |-> exception, next_state |-> state, reward |-> 0, done |-> FALSE]

\* look_step_ahead(state, action, care_about_terminal), action any integer
call_look_step_ahead(state, action, care_about_terminal) ==
    IF raises_index_error(state, action, care_about_terminal)
    THEN /\ ret' = raised("IndexError", state)
         /\ UNCHANGED <<layout, fruit, reward_matrix, episode, n_resets, restored, n_steps>>
    ELSE look_step_ahead(state, list_index(action), care_about_terminal)

\* _step(action), action any integer: previous_state is assigned before
\* look_step_ahead is called
call_step(action) ==
    IF raises_index_error(current_state, action, TRUE)
    THEN /\ ret' = raised("IndexError", current_state)
         /\ previous_state' = current_state
         /\ UNCHANGED <<layout, fruit, reward_matrix, current_state, done, last_n_states,
                        n_resets, restored, n_steps>>
    ELSE step(list_index(action))

\* one call with any action value on a fresh environment
AnyLook ==
    /\ ret.op = "init"
    /\ \E state \in States, action \in ActionInputs, care \in BOOLEAN :
        /\ call_look_step_ahead(state, action, care)
        /\ args' = [state |-> state, action |-> action, care_about_terminal |-> care]
        /\ UNCHANGED <<ctor, td, gridworld, rng>>
AnyStep ==
    /\ ret.op = "init"
    /\ \E action \in ActionInputs :
        /\ call_step(action)
        /\ args' = [state |-> current_state, action |-> action, care_about_terminal |-> TRUE]
        /\ UNCHANGED <<ctor, td, gridworld, rng>>

NextArgs == AnyLook \/ AnyStep

SpecArgs == Init /\ [][NextArgs]_vars

\* an episode of _step calls with any action value: a call that raised leaves
\* the environment usable, and further calls follow it
StepAny ==
    \E action \in ActionInputs :
        /\ n_steps < MaxSteps
        /\ call_step(action)
        /\ args' = [state |-> current_state, action |-> action, care_about_terminal |-> TRUE]
        /\ UNCHANGED <<ctor, td, gridworld, rng>>

NextFault == StepAny

SpecFault == Init /\ [][NextFault]_vars

----------------------------------------------------------------------------
(* Policy sweeps of core/algorithms/utils.py over an environment *)

\* single_step_policy_evaluation and greedy_policy_from_value_function both
\* run   for state in range(env.world.size): for action in 0 .. 3:
\*           next_state, reward, done = env.look_step_ahead(state, action)
\* args holds the arguments of the call made last, which is the position of
\* the loops; ret holds the triple it returned, named after the sweep
Sweeps == {"single_step_policy_evaluation", "greedy_policy_from_value_function"}
sweep_started == ret.op \in Sweeps
sweep_position ==
    IF ~sweep_started THEN <<0, UP>>
    ELSE IF args.action < LEFT THEN <<args.state, args.action + 1>>
    ELSE <<args.state + 1, UP>>
sweep_finished == sweep_started /\ sweep_position[1] = size
sweep_call(sweep) ==
    LET state == sweep_position[1]
        action == sweep_position[2]
    IN  /\ state < size
        /\ look_effect(look_result(sweep, state, action, TRUE))
        /\ args' = [state |-> state, action |-> action, care_about_terminal |-> TRUE]
        /\ UNCHANGED <<ctor, td, gridworld, rng>>

\* one iteration of the inner loop of a sweep over a fresh environment
SingleStepPolicyEvaluation ==
    /\ ret.op \in {"init", "single_step_policy_evaluation"}
    /\ sweep_call("single_step_policy_evaluation")
GreedyPolicyFromValueFunction ==
    /\ ret.op \in {"init", "greedy_policy_from_value_function"}
    /\ sweep_call("greedy_policy_from_value_function")
\* a real step once the sweep has returned
StepAfterSweep ==
    \E action \in Actions :
        /\ sweep_finished
        /\ step(action)
        /\ args' = [state |-> current_state, action |-> action, care_about_terminal |-> TRUE]
        /\ UNCHANGED <<ctor, td, gridworld, rng>>

NextSweep == SingleStepPolicyEvaluation \/ GreedyPolicyFromValueFunction \/ StepAfterSweep

SpecSweep == Init /\ [][NextSweep]_vars

----------------------------------------------------------------------------
(* td_episodic_n_step_evaluation of core/algorithms/TD.py *)

\* n_steps and n_episodes of the call
MaxTdSteps == 2
MaxEpisodes == 2

\* td holds the locals of td_episodic_n_step_evaluation (episode, curr_state,
\* done), those of the td_single_n_step_evaluation / n_step_return call it is
\* in (last_state, step, step_done) and the position pc:
\*   "while"           at the test of `while not done` in iteration `episode`
\*   "n_step_return"   in the loop of n_step_return, before step number `step`
\*   "look_step_ahead" in td_single_n_step_evaluation, n_step_return returned
\*   "return"          the for loop is over
\* evaluated tells whether td_single_n_step_evaluation was called in the
\* iteration of the for loop that is running.  The policy is stochastic:
\* np.random.choice may draw any action.
td_call(n, episodes) ==
    [pc |-> "while", n_steps |-> n, n_episodes |-> episodes, episode |-> 0,
     curr_state |-> current_state, done |-> FALSE,
     last_state |-> current_state, step |-> 0, step_done |-> FALSE,
     evaluated |-> FALSE]

InitTd ==
    /\ \E sh \in EpisodeShapes : \E P \in Entities(sh[1], sh[2]) : construct(sh[1], sh[2], P)
    /\ untracked
    /\ gridworld = NoGridWorld
    /\ \E n \in 1 .. MaxTdSteps, episodes \in 1 .. MaxEpisodes : td = td_call(n, episodes)

\* while not done: td_single_n_step_evaluation(policy, env, n_steps, curr_state)
\* is entered, and n_step_return in it, up to its loop
TdSingleNStepEvaluation ==
    /\ td.pc = "while"
    /\ td.episode < td.n_episodes
    /\ ~td.done
    /\ td' = [td EXCEPT !.pc = "n_step_return", !.last_state = td.curr_state,
                        !.step = 0, !.step_done = FALSE, !.evaluated = TRUE]
    /\ UNCHANGED <<layout, fruit, reward_matrix, episode, ret, args, n_resets, restored,
                    n_steps, ctor, rng, gridworld>>

\* one iteration of the loop of n_step_return
NStepReturn ==
    /\ td.pc = "n_step_return"
    /\ \E action \in Actions :
        LET r == look_result("look_step_ahead", td.last_state, action, TRUE)
        IN  /\ look_effect(r)
            /\ args' = [state |-> td.last_state, action |-> action,
                        care_about_terminal |-> TRUE]
            /\ td' = [td EXCEPT !.last_state = r.next_state, !.step_done = r.done,
                                !.step = @ + 1,
                                !.pc = IF r.done \/ td.step + 1 = td.n_steps
                                       THEN "look_step_ahead" ELSE "n_step_return"]
    /\ UNCHANGED <<ctor, rng, gridworld>>

\* next_state, *_ = env.look_step_ahead(last_state, action), the return of
\* td_single_n_step_evaluation and curr_state = last_state in the while loop
TdTarget ==
    /\ td.pc = "look_step_ahead"
    /\ \E action \in Actions :
        /\ look_step_ahead(td.last_state, action, TRUE)
        /\ args' = [state |-> td.last_state, action |-> action, care_about_terminal |-> TRUE]
    /\ td' = [td EXCEPT !.pc = "while", !.curr_state = td.last_state, !.done = td.step_done]
    /\ UNCHANGED <<ctor, rng, gridworld>>

\* the while loop is left or skipped: env.reset() and the next iteration of
\* the for loop; done and curr_state keep their values
EpisodeReset ==
    /\ td.pc = "while"
    /\ td.episode < td.n_episodes
    /\ td.done
    /\ \E start \in initial_states : reset(start)
    /\ args' = NoArgs
    /\ td' = [td EXCEPT !.episode = @ + 1, !.evaluated = FALSE,
                        !.pc = IF td.episode + 1 = td.n_episodes THEN "return" ELSE "while"]
    /\ UNCHANGED <<ctor, rng, gridworld>>

NextTd == TdSingleNStepEvaluation \/ NStepReturn \/ TdTarget \/ EpisodeReset

SpecTd == InitTd /\ [][NextTd]_vars

----------------------------------------------------------------------------
(* The constructor called with any lists of integers *)

\* the list given for one kind of entity, in the order of the placements
ids_of(pl, kind) ==
    LET sel == SelectSeq(pl, LAMBDA q : q[1] = kind)
    IN  [i \in 1 .. Len(sel) |-> sel[i][2]]
elems(list) == {list[i] : i \in 1 .. Len(list)}
\* variant: no list is tested for duplicates
has_duplicates_never(list) == FALSE

\* len(list) != len(set(list))
has_duplicates(list) == Cardinality(elems(list)) # Len(list)
\* numpy indexing of an array of n cells: negative indices count from the end
np_index(i, n) == IF i < 0 THEN i + n ELSE i
np_index_error(i, n) == i > n - 1 \/ i < -n

\* initial_state=0 by default
default_initial_states(starts) == IF starts = <<>> THEN <<0>> ELSE starts
\* variant: the default goal is the first cell
default_goal_states_first(goals, n) == IF goals = <<>> THEN <<0>> ELSE goals

\* goal_states None or empty: [world.size - 1]
default_goal_states(goals, n) == IF goals = <<>> THEN <<n - 1>> ELSE goals

\* the seven duplicate tests of _check_specific_collisions
duplicate_lists(walls, starts, goals, lavas, as, ls, ms) ==
    \/ has_duplicates(as) \/ has_duplicates(ls) \/ has_duplicates(ms)
    \/ has_duplicates(walls) \/ has_duplicates(starts)
    \/ has_duplicates(goals) \/ has_duplicates(lavas)

\* _generate_world iterates np.nditer(np.arange(y_max)) and, inside it,
\* np.nditer(np.arange(x_max)): nditer refuses an operand of no elements
generate_world_raises(w, h) == h <= 0 \/ w <= 0

\* variant: nothing is validated
ctor_exception_never(w, h, pl) == "none"

\* the exception __init__ ends with, "none" when it returns
ctor_exception(w, h, pl) ==
    LET n      == w * h
        walls  == ids_of(pl, "wall")
        starts == default_initial_states(ids_of(pl, "start"))
        goals  == default_goal_states(ids_of(pl, "goal"), n)
        lavas  == ids_of(pl, "lava")
        as     == ids_of(pl, "apple")
        ls     == ids_of(pl, "lemon")
        ms     == ids_of(pl, "melon")
    IN  IF generate_world_raises(w, h) THEN "ValueError"
        ELSE IF \E t \in elems(lavas) : t < 0 \/ t > n - 1 THEN "ValueError"
        ELSE IF \E t \in elems(walls) : t < 0 \/ t > n - 1 THEN "ValueError"
        ELSE IF \E t \in elems(as) \cup elems(ls) \cup elems(ms) \cup elems(goals) :
                    np_index_error(t, n) THEN "IndexError"
        ELSE IF duplicate_lists(walls, starts, goals, lavas, as, ls, ms) THEN "ValueError"
        ELSE IF ~check_specific_collisions(elems(walls), elems(starts), elems(goals),
                                           elems(lavas), elems(as), elems(ls), elems(ms))
             THEN "ValueError"
        ELSE "none"

\* how many entries of the list index cell s of an array of n cells
hits(list, s, n) == Cardinality({i \in 1 .. Len(list) : np_index(list[i], n) = s})

\* __init__(grid_shape=(w, h), ...) with the lists of the placements pl
construct_call(w, h, pl) ==
    LET n      == w * h
        exc    == ctor_exception(w, h, pl)
        starts == default_initial_states(ids_of(pl, "start"))
        goals  == default_goal_states(ids_of(pl, "goal"), n)
        lavas  == ids_of(pl, "lava")
        as     == ids_of(pl, "apple")
        ls     == ids_of(pl, "lemon")
        ms     == ids_of(pl, "melon")
    IN  /\ ctor' = [ctor EXCEPT !.raised = exc]
        /\ IF exc # "none"
           THEN UNCHANGED <<layout, fruit, reward_matrix, episode, ret>>
           ELSE /\ x_max' = w /\ y_max' = h
                /\ wall_indices' = elems(ids_of(pl, "wall"))
                /\ initial_states' = elems(starts)
                /\ goal_states' = elems(goals)
                /\ lava_states' = elems(lavas)
                /\ lemons' = elems(ls) /\ apples' = elems(as) /\ melons' = elems(ms)
                /\ current_lemons' = elems(ls)
                /\ current_apples' = elems(as)
                /\ current_melons' = elems(ms)
                /\ current_state' \in elems(starts)
                /\ previous_state' = current_state'
                /\ reward_matrix' = [s \in 0 .. (n - 1) |->
                        IF hits(lavas, s, n) > 0 THEN -10
                        ELSE IF hits(goals, s, n) > 0 THEN 10
                        ELSE MOVEMENT_REWARD + hits(as, s, n) * APPLE_REWARD
                                             + hits(ls, s, n) * LEMON_REWARD
                                             + hits(ms, s, n) * MELON_REWARD]
                /\ last_n_states' = <<>>
                /\ done' = FALSE
                /\ ret' = [op |-> "init", next_state |-> current_state',
                           reward |-> 0, done |-> FALSE]
        /\ UNCHANGED <<args, n_resets, restored, n_steps, rng, td, gridworld>>

\* ids around the grid of n cells: in range, just outside, and beyond -n
Ids(n) == {-n - 1, -1} \cup (0 .. n)
RECURSIVE SeqsUpTo(_, _)
SeqsUpTo(S, k) ==
    IF k = 0 THEN {<<>>}
    ELSE LET prev == SeqsUpTo(S, k - 1)
         IN  prev \cup {Append(p, x) : p \in {q \in prev : Len(q) = k - 1}, x \in S}
CtorShapes == {<<1, 1>>, <<2, 1>>, <<2, 2>>}
\* shapes with a width or a height that is not positive
EmptyShapes == {<<0, 2>>, <<2, 0>>, <<0, 0>>, <<-1, 2>>, <<-1, -1>>}

\* before the call: no environment yet
InitCtor ==
    /\ \E sh \in CtorShapes \cup EmptyShapes :
         \E pl \in SeqsUpTo(Kinds \X Ids(sh[1] * sh[2]), MaxPlacements) :
            ctor = [grid_shape |-> sh, placements |-> pl, custom_world |-> <<>>,
                    raised |-> "pending"]
    /\ x_max = 0 /\ y_max = 0
    /\ wall_indices = {} /\ initial_states = {} /\ goal_states = {} /\ lava_states = {}
    /\ lemons = {} /\ apples = {} /\ melons = {}
    /\ current_lemons = {} /\ current_apples = {} /\ current_melons = {}
    /\ reward_matrix = <<>>
    /\ current_state = -1 /\ previous_state = -1 /\ done = FALSE
    /\ last_n_states = <<>>
    /\ ret = [op |-> "new", next_state |-> -1, reward |-> 0, done |-> FALSE]
    /\ args = NoArgs
    /\ n_resets = 0 /\ restored = {} /\ n_steps = 0
    /\ np_random = DEFAULT_SEED /\ py_random = 0 /\ sampled = <<>> /\ twin = NoTwin
    /\ td = NoTd /\ gridworld = NoGridWorld

Construct ==
    /\ ctor.raised = "pending"
    /\ construct_call(ctor.grid_shape[1], ctor.grid_shape[2], ctor.placements)

NextCtor == Construct

SpecCtor == InitCtor /\ [][NextCtor]_vars

----------------------------------------------------------------------------
(* Seeding and start-state sampling: two environments in one process *)

SeedValues == {0, 1}

\* the list initial_states in ascending order
RECURSIVE sorted(_)
sorted(S) ==
    IF S = {} THEN <<>>
    ELSE LET m == CHOOSE x \in S : \A y \in S : x <= y
         IN  <<m>> \o sorted(S \ {m})

\* random.choice(list) with the module generator in state g: the element
\* drawn and the state the draw leaves
random_choice(g, list) == list[(g % Len(list)) + 1]
random_advance(g) == (g + 1) % RandomStates

\* _seed(seed): a new generator for self.np_random, nothing else
seed(value) ==
    /\ np_random' = value
    /\ sampled' = <<>>
    /\ UNCHANGED <<layout, fruit, reward_matrix, episode, ret, args, n_resets, restored,
                    n_steps, ctor, td, gridworld, py_random, twin>>

\* _reset() with the start state that random.choice draws
sampling_reset ==
    LET start == random_choice(py_random, sorted(initial_states))
    IN  /\ reset(start)
        /\ py_random' = random_advance(py_random)
        /\ sampled' = Append(sampled, start)
        /\ args' = NoArgs
        /\ UNCHANGED <<ctor, td, gridworld, np_random, twin>>

\* the same two calls on the second environment
twin_seed(value) ==
    /\ twin' = [np_random |-> value, sampled |-> <<>>]
    /\ UNCHANGED <<layout, fruit, reward_matrix, episode, ret, args, n_resets, restored,
                    n_steps, ctor, td, gridworld, np_random, py_random, sampled>>
twin_reset ==
    /\ Len(twin.sampled) < MaxResets
    /\ twin' = [twin EXCEPT !.sampled =
                    Append(@, random_choice(py_random, sorted(initial_states)))]
    /\ py_random' = random_advance(py_random)
    /\ UNCHANGED <<layout, fruit, reward_matrix, episode, ret, args, n_resets, restored,
                    n_steps, ctor, td, gridworld, np_random, sampled>>

\* two environments built from the same arguments; the module generator is in
\* whatever state the process left it
InitSeed ==
    /\ \E sh \in EpisodeShapes :
         \E P \in SubsetsUpTo({"start"} \X (0 .. (sh[1] * sh[2] - 1)), MaxPlacements) :
            construct(sh[1], sh[2], P)
    /\ ctor = NoCall
    /\ py_random \in 0 .. (RandomStates - 1)
    /\ sampled = <<>>
    /\ twin = [np_random |-> DEFAULT_SEED, sampled |-> <<>>]
    /\ td = NoTd /\ gridworld = NoGridWorld

Seed == \E value \in SeedValues : seed(value)
TwinSeed == \E value \in SeedValues : twin_seed(value)
SamplingReset == sampling_reset
TwinReset == twin_reset

NextSeed == Seed \/ TwinSeed \/ SamplingReset \/ TwinReset

SpecSeed == InitSeed /\ [][NextSeed]_vars

----------------------------------------------------------------------------
(* Text layouts: _create_custom_world_from_text and text rendering *)

\* the characters of a layout, and one that is not among them
TextChars == {"o", "#", "G", "L", "l", "a", "m", "x"}
AnyChars == TextChars \cup {"?"}

\* variant: the characters are numbered column by column
chars_at_by_columns(lines, ch) ==
    UNION {{(j - 1) * Len(lines) + (i - 1) :
                j \in {k \in 1 .. Len(lines[i]) : lines[i][k] = ch}} :
           i \in 1 .. Len(lines)}

\* ids of the cells holding character ch: curr_index counts the characters read
chars_at(lines, ch) ==
    UNION {{(i - 1) * Len(lines[1]) + (j - 1) :
                j \in {k \in 1 .. Len(lines[i]) : lines[i][k] = ch}} :
           i \in 1 .. Len(lines)}

\* variant: the row lengths are not compared
text_exception_any_lengths(lines) ==
    IF lines = <<>> THEN "IndexError"
    ELSE IF \E i \in 1 .. Len(lines) : \E j \in 1 .. Len(lines[i]) :
                lines[i][j] \notin TextChars THEN "ValueError"
    ELSE IF chars_at(lines, "x") = {} THEN "ValueError"
    ELSE IF chars_at(lines, "G") = {} THEN "ValueError"
    ELSE "none"

\* the exception the load ends with, "none" when it returns
text_exception(lines) ==
    IF lines = <<>> THEN "IndexError"
    ELSE IF \E i \in 1 .. Len(lines) : Len(lines[i]) # Len(lines[1]) THEN "ValueError"
    ELSE IF \E i \in 1 .. Len(lines) : \E j \in 1 .. Len(lines[i]) :
                lines[i][j] \notin TextChars THEN "ValueError"
    ELSE IF chars_at(lines, "x") = {} THEN "ValueError"
    ELSE IF chars_at(lines, "G") = {} THEN "ValueError"
    ELSE "none"

\* __init__(custom_world_fp=...) from line 122 on: the lists and the world are
\* replaced, reset() samples the start state and builds the reward matrix on
\* a fresh one, _check_specific_collisions finds characters on distinct cells
create_custom_world_from_text(lines) ==
    LET exc == text_exception(lines)
    IN  /\ ctor' = [ctor EXCEPT !.raised = exc]
        /\ IF exc # "none"
           THEN UNCHANGED <<layout, fruit, reward_matrix, episode, ret>>
           ELSE /\ goal_states' = chars_at(lines, "G")
                /\ lava_states' = chars_at(lines, "L")
                /\ lemons' = chars_at(lines, "l")
                /\ apples' = chars_at(lines, "a")
                /\ melons' = chars_at(lines, "m")
                /\ initial_states' = chars_at(lines, "x")
                /\ wall_indices' = chars_at(lines, "#")
                /\ y_max' = Len(lines)
                /\ x_max' = Len(lines[1])
                /\ done' = FALSE
                /\ current_state' \in chars_at(lines, "x")
                /\ previous_state' = current_state'
                /\ last_n_states' = <<>>
                /\ current_lemons' = chars_at(lines, "l")
                /\ current_apples' = chars_at(lines, "a")
                /\ current_melons' = chars_at(lines, "m")
                /\ reward_matrix' = generate_reward_matrix(
                        [s \in 0 .. (Len(lines) * Len(lines[1]) - 1) |-> MOVEMENT_REWARD],
                        chars_at(lines, "a"), chars_at(lines, "l"), chars_at(lines, "m"),
                        chars_at(lines, "G"), chars_at(lines, "L"))
                /\ ret' = [op |-> "init", next_state |-> current_state',
                           reward |-> 0, done |-> FALSE]
        /\ UNCHANGED <<args, n_resets, restored, n_steps, rng, td, gridworld>>

\* variant: the characters are laid out column by column
render_ansi_by_columns ==
    [r \in 1 .. y_max |-> [c \in 1 .. x_max |->
        LET s == (c - 1) * y_max + (r - 1)
        IN  IF s \in current_apples THEN "a"
            ELSE IF s \in current_lemons THEN "l"
            ELSE IF s \in current_melons THEN "m"
            ELSE IF s \in wall_indices THEN "#"
            ELSE IF s \in lava_states THEN "L"
            ELSE IF s \in goal_states THEN "G"
            ELSE IF s = current_state THEN "x"
            ELSE "o"]]

\* _render(mode='ansi'): 'o' everywhere, then 'x', 'G', 'L', '#', 'm', 'l', 'a'
\* written in that order (the last write stays), reshaped to y_max rows
render_ansi ==
    [r \in 1 .. y_max |-> [c \in 1 .. x_max |->
        LET s == (r - 1) * x_max + (c - 1)
        IN  IF s \in current_apples THEN "a"
            ELSE IF s \in current_lemons THEN "l"
            ELSE IF s \in current_melons THEN "m"
            ELSE IF s \in wall_indices THEN "#"
            ELSE IF s \in lava_states THEN "L"
            ELSE IF s \in goal_states THEN "G"
            ELSE IF s = current_state THEN "x"
            ELSE "o"]]

\* row lengths of the layouts: rectangles of up to 2 x 2 and 3 x 1 cells,
\* ragged ones, and the empty file
TextProfiles == {<<>>, <<1>>, <<2>>, <<3>>, <<1, 1>>, <<2, 1>>, <<1, 2>>, <<2, 2>>}
RECURSIVE sum(_)
sum(p) == IF p = <<>> THEN 0 ELSE Head(p) + sum(Tail(p))
\* the characters flat cut into rows of the lengths p
rows_of(flat, p) ==
    [i \in 1 .. Len(p) |->
        SubSeq(flat, sum(SubSeq(p, 1, i - 1)) + 1, sum(SubSeq(p, 1, i)))]
TextWorlds == UNION {{rows_of(flat, p) : flat \in [1 .. sum(p) -> AnyChars]} : p \in TextProfiles}

\* the environment before the layout is read: built from constructor
\* arguments of every kind on a 2 x 4 grid, or from the shape 2 x 2 alone
TextHosts == {<<2, 4, {<<"wall", 1>>, <<"lava", 2>>, <<"apple", 3>>, <<"lemon", 4>>,
                       <<"melon", 5>>, <<"start", 6>>}>>,
              <<2, 2, {}>>}

\* self.observation_space = spaces.Discrete(self.world.size) in __init__, with
\* the world built from grid_shape; no other statement assigns it
observation_space == ctor.grid_shape[1] * ctor.grid_shape[2]
\* self.wall_grid: np.zeros(self.world.shape) with a 1 on every wall
wall_grid == [s \in States |-> IF s \in wall_indices THEN 1 ELSE 0]

InitText ==
    /\ \E host \in TextHosts : construct(host[1], host[2], host[3])
    /\ \E lines \in TextWorlds :
            ctor = [grid_shape |-> <<x_max, y_max>>, placements |-> <<>>,
                    custom_world |-> lines, raised |-> "pending"]
    /\ untracked_rng
    /\ td = NoTd /\ gridworld = NoGridWorld

LoadText ==
    /\ ctor.raised = "pending"
    /\ create_custom_world_from_text(ctor.custom_world)

\* render(mode='ansi') of the freshly loaded environment
Render ==
    /\ ctor.raised = "none"
    /\ ret.op = "init"
    /\ ret' = [op |-> "render", next_state |-> current_state, reward |-> 0,
               done |-> done, outfile |-> render_ansi]
    /\ UNCHANGED <<layout, fruit, reward_matrix, episode, args, n_resets, restored,
                    n_steps, ctor, td, gridworld, rng>>

\* one look_step_ahead call on the freshly loaded environment
TextLook ==
    /\ ctor.raised = "none"
    /\ ret.op = "init"
    /\ \E state \in States, action \in Actions, care \in BOOLEAN :
        /\ look_step_ahead(state, action, care)
        /\ args' = [state |-> state, action |-> action, care_about_terminal |-> care]
        /\ UNCHANGED <<ctor, td, gridworld, rng>>

NextText == LoadText \/ Render \/ TextLook

SpecText == InitText /\ [][NextText]_vars

----------------------------------------------------------------------------
(* The simple GridWorldEnv of gym_gridworld/envs/gridworld_env.py *)

\* gridworld holds x_max, y_max, walls (the cells of the walls array that
\* hold 1), terminal_states, and call / ret: the arguments and the returned
\* triple of the last look_step_ahead

\* _generate_world: x is the outer loop, so world[s] = (s div y_max, s mod y_max)
gridworld_size == gridworld.x_max * gridworld.y_max
gridworld_world(s) == <<s \div gridworld.y_max, s % gridworld.y_max>>

\* variant: the moves are not stopped at the edges of the grid
gridworld_action_state_to_next_state_no_edges(action, s) ==
    CASE action = 0 -> s + 1
      [] action = 1 -> s + gridworld.y_max
      [] action = 2 -> s - 1
      [] action = 3 -> s - gridworld.y_max

\* the four lambdas: up, right, down, left
gridworld_action_state_to_next_state(action, s) ==
    CASE action = 0 -> IF gridworld_world(s)[2] = gridworld.y_max - 1 THEN s ELSE s + 1
      [] action = 1 -> IF gridworld_world(s)[1] = gridworld.x_max - 1 THEN s
                       ELSE s + gridworld.y_max
      [] action = 2 -> IF gridworld_world(s)[2] = 0 THEN s ELSE s - 1
      [] action = 3 -> IF gridworld_world(s)[1] = 0 THEN s ELSE s - gridworld.y_max

\* self.walls[state] with numpy indexing: a negative index counts from the end,
\* any other index outside the array raises IndexError
gridworld_is_valid(state) == np_index(state, gridworld_size) \notin gridworld.walls
gridworld_is_terminal(state) == state \in gridworld.terminal_states
gridworld_reward_matrix(state) == IF gridworld_is_terminal(state) THEN 0 ELSE -1

gridworld_look_step_ahead(state, action) ==
    LET moved == gridworld_action_state_to_next_state(action, state)
        next_state == IF gridworld_is_terminal(state) THEN state
                      ELSE IF gridworld_is_valid(moved) THEN moved ELSE state
    IN  IF ~gridworld_is_terminal(state) /\ np_index_error(moved, gridworld_size)
        THEN [op |-> "IndexError"]
        ELSE [op |-> "look_step_ahead", next_state |-> next_state,
              reward |-> gridworld_reward_matrix(next_state),
              done |-> gridworld_is_terminal(next_state)]

\* GridWorldEnv(grid_shape, walls=..., terminal_states=...): terminal_states
\* is [size - 1] unless given
InitGridWorld ==
    /\ construct(1, 1, {}) /\ untracked /\ td = NoTd
    /\ \E sh \in GridShapes(MaxCells) :
         \E walls \in SubsetsUpTo(0 .. (sh[1] * sh[2] - 1), MaxEntities) :
           \E terminal_states \in SubsetsUpTo(0 .. (sh[1] * sh[2] - 1), MaxEntities) :
              gridworld = [x_max |-> sh[1], y_max |-> sh[2], walls |-> walls,
                           terminal_states |-> terminal_states,
                           call |-> NoArgs, ret |-> [op |-> "init"]]

\* look_step_ahead(state, action) with any state of the grid
GridWorldLook ==
    /\ gridworld.ret.op = "init"
    /\ \E state \in 0 .. (gridworld_size - 1), action \in Actions :
         gridworld' = [gridworld EXCEPT
                          !.call = [state |-> state, action |-> action,
                                    care_about_terminal |-> TRUE],
                          !.ret = gridworld_look_step_ahead(state, action)]
    /\ UNCHANGED <<layout, fruit, reward_matrix, episode, ret, args, n_resets, restored,
                    n_steps, ctor, rng, td>>

NextGridWorld == GridWorldLook

SpecGridWorld == InitGridWorld /\ [][NextGridWorld]_vars

----------------------------------------------------------------------------
(* Vocabulary of the properties *)

Row(s) == s \div x_max
Col(s) == s % x_max
Terminal == goal_states \cup lava_states
Template == lemons \cup apples \cup melons
Working == current_lemons \cup current_apples \cup current_melons
Bonus(c) == IF c \in lemons THEN LEMON_REWARD
            ELSE IF c \in apples THEN APPLE_REWARD
            ELSE MELON_REWARD
\* the cell the arithmetic of an action points at
Neighbour(s, action) ==
    CASE action = UP -> s - x_max
      [] action = RIGHT -> s + 1
      [] action = DOWN -> s + x_max
      [] action = LEFT -> s - 1
BeyondEdge(s, action) ==
    CASE action = UP -> Row(s) = 0
      [] action = RIGHT -> Col(s) = x_max - 1
      [] action = DOWN -> Row(s) = y_max - 1
      [] action = LEFT -> Col(s) = 0
Looked == ret.op = "look_step_ahead"
Stepped == ret.op = "step"
\* the call that made this transition was a step or a look-ahead
Moved == ret.op \in {"step", "look_step_ahead"}

----------------------------------------------------------------------------
(* C1 *)

\* C1 as stated: look_step_ahead called with any state id in [0, size) returns a
\* next_state in [0, size) that is not a wall.
C1_AnyState ==
    Looked => (ret.next_state \in States /\ ret.next_state \notin wall_indices)

\* C1, amended: look_step_ahead called with a state id in [0, size) that is not a
\* wall, any action and either value of care_about_terminal returns a next_state
\* in [0, size) that is not a wall.
C1_NonWallState ==
    (Looked /\ args.state \notin wall_indices)
        => (ret.next_state \in States /\ ret.next_state \notin wall_indices)

\* a move from a walkable state into a wall was looked at
C1_Witness ==
    /\ Looked
    /\ args.state \notin wall_indices
    /\ ~BeyondEdge(args.state, args.action)
    /\ Neighbour(args.state, args.action) \in wall_indices

----------------------------------------------------------------------------
(* C2 *)

\* C2: look_step_ahead from a goal or lava state with care_about_terminal = True
\* returns that same state and done = True, whatever the action.
C2_TerminalAbsorbing ==
    (Looked /\ args.care_about_terminal /\ args.state \in Terminal)
        => (ret.next_state = args.state /\ ret.done = TRUE)

\* a look-ahead from a lava state whose move would have left it
C2_Witness ==
    /\ Looked /\ args.care_about_terminal
    /\ args.state \in lava_states
    /\ ~BeyondEdge(args.state, args.action)
    /\ Neighbour(args.state, args.action) \notin wall_indices
    /\ ret.next_state = args.state

----------------------------------------------------------------------------
(* C6 *)

\* C6: from a non-terminal state on the top row UP returns the same state,
\* likewise RIGHT on the rightmost column, DOWN on the bottom row and LEFT on the
\* leftmost column; a move stays in the grid and changes only the row (UP, DOWN)
\* or only the column (LEFT, RIGHT), by at most one.
C6_BoundaryRespect ==
    (Looked /\ args.state \notin Terminal) =>
        /\ BeyondEdge(args.state, args.action) => ret.next_state = args.state
        /\ ret.next_state \in States
        /\ args.action \in {UP, DOWN} =>
              /\ Col(ret.next_state) = Col(args.state)
              /\ Row(ret.next_state) - Row(args.state) \in {-1, 0, 1}
        /\ args.action \in {LEFT, RIGHT} =>
              /\ Row(ret.next_state) = Row(args.state)
              /\ Col(ret.next_state) - Col(args.state) \in {-1, 0, 1}

\* RIGHT on the rightmost column with an open cell at id + 1 on the next row
C6_Witness ==
    /\ Looked
    /\ args.state \notin Terminal
    /\ args.action = RIGHT
    /\ Col(args.state) = x_max - 1
    /\ (args.state + 1) \in States
    /\ (args.state + 1) \notin wall_indices
    /\ ret.next_state = args.state

----------------------------------------------------------------------------
(* C7 *)

\* C7: from a non-terminal state, a move whose arithmetic neighbour is a wall
\* returns the input state; a move whose neighbour is neither a wall nor beyond
\* an edge returns that neighbour.
C7_WallBlocking ==
    (Looked /\ args.state \notin Terminal) =>
        /\ Neighbour(args.state, args.action) \in wall_indices
              => ret.next_state = args.state
        /\ (/\ ~BeyondEdge(args.state, args.action)
            /\ Neighbour(args.state, args.action) \notin wall_indices)
              => ret.next_state = Neighbour(args.state, args.action)

\* a move inside the grid that a wall cancelled
C7_Witness ==
    /\ Looked
    /\ args.state \notin Terminal
    /\ ~BeyondEdge(args.state, args.action)
    /\ Neighbour(args.state, args.action) \in wall_indices
    /\ ret.next_state = args.state
    /\ x_max > 1 /\ y_max > 1

----------------------------------------------------------------------------
(* C3 *)

\* C3 as stated, for fruit cells that are not terminal: a step or look-ahead that
\* lands on a cell of the fruit templates returns step cost + that fruit's bonus
\* when the cell still holds its fruit (the first landing since construction or
\* the last reset) and the step cost on every later landing before the next
\* reset.
C3_RewardIdempotence ==
    [][(Moved' /\ ret'.next_state \in (Template \ Terminal)) =>
          ret'.reward = IF ret'.next_state \in Working
                        THEN MOVEMENT_REWARD + Bonus(ret'.next_state)
                        ELSE MOVEMENT_REWARD]_vars

----------------------------------------------------------------------------
(* C4 *)

\* C4 as stated: a reset puts every fruit cell collected in the episode it ends
\* back into the working fruit set, and the first step or look-ahead that lands
\* on such a cell after that reset returns step cost + the fruit's bonus.
C4_ResetRestoresFruit ==
    [][/\ ret'.op = "reset" => restored' \subseteq Working'
       /\ (Moved' /\ ret'.next_state \in restored /\ ret'.next_state \in Working)
             => ret'.reward = MOVEMENT_REWARD + Bonus(ret'.next_state)]_vars

----------------------------------------------------------------------------
(* C5 *)

\* the matrix a rebuild from scratch gives
FreshMatrix ==
    [s \in States |->
        IF s \in lava_states THEN LAVA_REWARD
        ELSE IF s \in goal_states THEN TERMINAL_GOAL_REWARD
        ELSE IF s \in Template THEN MOVEMENT_REWARD + Bonus(s)
        ELSE MOVEMENT_REWARD]

\* C5 as stated: right after construction and right after every reset the
\* reward matrix is the freshly rebuilt one: lava penalty at lava states, goal
\* reward at goal states, step cost + bonus (once) at non-terminal fruit
\* template states, step cost elsewhere.
C5_ResetRebuildsMatrix ==
    ret.op \in {"init", "reset"} => reward_matrix = FreshMatrix

----------------------------------------------------------------------------
(* C8 *)

Plain2x2 ==
    /\ x_max = 2 /\ y_max = 2
    /\ initial_states = {0} /\ goal_states = {3}
    /\ wall_indices = {} /\ lava_states = {} /\ Template = {}

\* the 2x2 scenario: step(RIGHT) from 0, then step(DOWN) from 1
Scenario2x2 ==
    (Plain2x2 /\ Stepped) =>
        /\ (args.state = 0 /\ args.action = RIGHT) =>
              ret = [op |-> "step", next_state |-> 1,
                     reward |-> MOVEMENT_REWARD, done |-> FALSE]
        /\ (args.state = 1 /\ args.action = DOWN) =>
              ret = [op |-> "step", next_state |-> 3,
                     reward |-> TERMINAL_GOAL_REWARD, done |-> TRUE]

\* C8: every step and look-ahead returns the reward-matrix value the resulting
\* state had before the call, and done exactly when the resulting state is a
\* goal or lava state; on the plain 2x2 grid step(RIGHT) from 0 returns
\* (1, step cost, false) and step(DOWN) from 1 returns (3, goal reward, true).
C8_RewardAndDone ==
    [][/\ Moved' =>
            /\ ret'.reward = reward_matrix[ret'.next_state]
            /\ ret'.done = (ret'.next_state \in Terminal)
       /\ Scenario2x2']_vars

\* the scenario has run: RIGHT, then DOWN onto the goal
C8_Witness ==
    /\ Plain2x2 /\ Stepped
    /\ last_n_states = <<<<1, 0>>, <<1, 1>>>>
    /\ args.action = DOWN
    /\ ret.next_state = 3 /\ ret.reward = TERMINAL_GOAL_REWARD /\ ret.done

----------------------------------------------------------------------------
(* C9 *)

\* C9: a look_step_ahead leaves current_state, previous_state, done and the
\* history unchanged; it changes nothing at all, or it removes the fruit of the
\* resulting state from the working fruit set and sets that state's
\* reward-matrix entry to the step cost.
C9_LookAheadFrame ==
    [][Looked' =>
          /\ UNCHANGED <<current_state, previous_state, done, last_n_states>>
          /\ UNCHANGED layout
          /\ \/ UNCHANGED <<fruit, reward_matrix>>
             \/ /\ ret'.next_state \in Working
                /\ Working' = Working \ {ret'.next_state}
                /\ current_lemons' \subseteq current_lemons
                /\ current_apples' \subseteq current_apples
                /\ current_melons' \subseteq current_melons
                /\ reward_matrix' =
                      [reward_matrix EXCEPT ![ret'.next_state] = MOVEMENT_REWARD]]_vars

\* a look-ahead collected the fruit of a cell the agent is not on
C9_Witness ==
    /\ Looked
    /\ ret.next_state \in (Template \ Working)
    /\ ret.next_state # current_state
    /\ last_n_states = <<>>
    /\ ret.reward # MOVEMENT_REWARD

----------------------------------------------------------------------------
(* C10 *)

\* C10: once done is true, a step with any action keeps current_state (a goal or
\* lava state) and done = true, and leaves the working fruit and the reward
\* matrix alone; only a reset clears done.
C10_StepAfterDone ==
    [][/\ (done /\ Stepped') =>
            /\ current_state' = current_state
            /\ current_state \in Terminal
            /\ done'
            /\ UNCHANGED <<fruit, reward_matrix>>
       /\ (done /\ ~done') => ret'.op = "reset"]_vars

\* a step was taken after the episode had ended
C10_Witness ==
    /\ done /\ Stepped
    /\ Len(last_n_states) >= 2
    /\ last_n_states[Len(last_n_states)] = last_n_states[Len(last_n_states) - 1]
    /\ args.state = current_state
    /\ args.state \in Terminal
    /\ ~BeyondEdge(args.state, args.action)
    /\ Neighbour(args.state, args.action) \notin wall_indices

----------------------------------------------------------------------------
(* C11: reset, called in any reachable state, leaves done false,            *)
(* current_state and previous_state equal to one member of the start-state  *)
(* set, the history empty and every working fruit list equal to its         *)
(* template, and returns that current_state.                                *)
C11_ResetPostcondition ==
    ret.op = "reset" =>
        /\ done = FALSE
        /\ current_state \in initial_states
        /\ previous_state = current_state
        /\ ret.next_state = current_state
        /\ last_n_states = <<>>
        /\ current_lemons = lemons
        /\ current_apples = apples
        /\ current_melons = melons

\* a reset that ends an episode in which fruit was collected
C11_Witness ==
    /\ ret.op = "reset"
    /\ restored # {}
    /\ Working = Template
    /\ last_n_states = <<>>

----------------------------------------------------------------------------
(* C12: after any sequence of steps and resets the history never holds more *)
(* than 500 entries and holds, in order, the coordinates of the resulting   *)
(* states of the most recent min(k, 500) steps since the last reset, k the  *)
(* number of those steps: a step appends the coordinate of its resulting    *)
(* state and, when the history is full, evicts the oldest entry; a reset    *)
(* empties it.  Each step sets previous_state to the pre-step               *)
(* current_state.                                                           *)
C12_Capacity == num_previous_states_to_store

C12_BoundedHistory ==
    [][ /\ Len(last_n_states') <= C12_Capacity
        /\ Len(last_n_states') = (IF n_steps' < C12_Capacity THEN n_steps' ELSE C12_Capacity)
        /\ ret'.op = "reset" => last_n_states' = <<>>
        /\ ret'.op = "step" =>
            /\ previous_state' = current_state
            /\ last_n_states' =
                 Append(IF Len(last_n_states) < C12_Capacity
                        THEN last_n_states
                        ELSE SubSeq(last_n_states, 2, C12_Capacity),
                        <<Col(current_state'), Row(current_state')>>)
      ]_vars

\* the step after the history filled up evicted a coordinate that differs from
\* the newest one
C12_Witness ==
    /\ ret.op = "step"
    /\ n_steps > C12_Capacity
    /\ Len(last_n_states) = C12_Capacity
    /\ last_n_states[1] = <<0, 0>>
    /\ last_n_states[C12_Capacity] = <<1, 0>>
    /\ previous_state = 1 /\ current_state = 1

----------------------------------------------------------------------------
(* C13: step and look_step_ahead raise an argument error for every action   *)
(* value that is not one of 0 .. 3 (for example -1 or 4), in every state,   *)
(* terminal states included.                                                *)
C13_InvalidActionRaises ==
    (ret.op # "init" /\ args.action \notin 0 .. 3) => ret.op = "IndexError"

----------------------------------------------------------------------------
(* Vocabulary of the constructor properties: the arguments of the call *)
Arg(kind) == elems(ids_of(ctor.placements, kind))
ArgSize == ctor.grid_shape[1] * ctor.grid_shape[2]
ArgStarts == IF Arg("start") = {} THEN {0} ELSE Arg("start")
ArgGoals == IF Arg("goal") = {} THEN {ArgSize - 1} ELSE Arg("goal")
ArgFruit == Arg("apple") \cup Arg("lemon") \cup Arg("melon")
Called == ctor.raised \in {"none", "ValueError", "IndexError"}
Constructed == ctor.raised = "none"
Rejected == ctor.raised \in {"ValueError", "IndexError"}
\* every id of the call is a cell of the grid
ArgsInRange ==
    \A i \in 1 .. Len(ctor.placements) : ctor.placements[i][2] \in 0 .. (ArgSize - 1)
\* no placement is given twice
ArgsDistinct ==
    \A i, j \in 1 .. Len(ctor.placements) :
        ctor.placements[i] = ctor.placements[j] => i = j

(* C14: construction raises a configuration error whenever a wall id        *)
(* coincides with a start state, a goal state, a lava state or a fruit;     *)
(* hence in every constructed environment the walls are disjoint from all   *)
(* of those sets.                                                           *)
C14_WallCollisions ==
    /\ (Called /\ Arg("wall") \cap (ArgStarts \cup ArgGoals \cup Arg("lava") \cup ArgFruit) # {})
            => Rejected
    /\ Constructed =>
            wall_indices \cap (initial_states \cup goal_states \cup lava_states
                                \cup lemons \cup apples \cup melons) = {}

\* a call rejected for nothing but a wall id equal to a goal id
C14_Witness ==
    /\ ctor.raised = "ValueError"
    /\ ArgsInRange /\ ArgsDistinct
    /\ Len(ctor.placements) = 2
    /\ Arg("wall") # {}
    /\ Arg("wall") = Arg("goal")

(* C15: construction raises a configuration error when the goal set and the *)
(* lava set share a state id; in every constructed environment goal_states  *)
(* and lava_states are disjoint.                                            *)
C15_GoalLavaDisjoint ==
    /\ (Called /\ ArgGoals \cap Arg("lava") # {}) => Rejected
    /\ Constructed => goal_states \cap lava_states = {}

(* C16: construction raises a configuration error when a single category    *)
(* list (walls, starts, goals, lava, apples, lemons, melons) holds an id    *)
(* twice, and when one id appears in two different fruit categories.        *)
C16_DuplicatesRejected ==
    LET fruit_shared == \/ Arg("apple") \cap Arg("lemon") # {}
                        \/ Arg("apple") \cap Arg("melon") # {}
                        \/ Arg("lemon") \cap Arg("melon") # {}
    IN  (Called /\ (~ArgsDistinct \/ fruit_shared)) => Rejected

\* a call rejected for nothing but an id given twice in one list
C16_Witness ==
    /\ ctor.raised = "ValueError"
    /\ ArgsInRange
    /\ Arg("wall") = {}
    /\ Len(ctor.placements) = 2
    /\ ctor.placements[1] = ctor.placements[2]
    /\ ctor.placements[1][1] \in {"goal", "start", "lava"}

(* C17: in every constructed environment no fruit cell (apple, lemon or     *)
(* melon) is a goal or lava state.                                          *)
C17_FruitNotTerminal ==
    Constructed => (lemons \cup apples \cup melons) \cap (goal_states \cup lava_states) = {}

(* C18: construction raises a configuration error for any state id outside  *)
(* [0, size) in any category, negative ids as well as ids >= size.          *)
C18_OutOfRangeRejected ==
    (Called /\ ~ArgsInRange) => Rejected

(* C19: defaults at construction: no goal states supplied gives the goal    *)
(* set {size - 1}, no lava states the empty lava set, no start state the    *)
(* start-state set {0}.                                                     *)
C19_Defaults ==
    Constructed =>
        /\ Arg("goal") = {} => goal_states = {ArgSize - 1}
        /\ Arg("lava") = {} => lava_states = {}
        /\ Arg("start") = {} => initial_states = {0} /\ current_state = 0

\* the 2 x 2 grid constructed from the grid shape alone
C19_Witness ==
    /\ Constructed
    /\ ctor.placements = <<>>
    /\ x_max = 2 /\ y_max = 2
    /\ goal_states = {3} /\ lava_states = {} /\ initial_states = {0}

----------------------------------------------------------------------------
(* C20: seed(value) pins the random source of start-state sampling: two     *)
(* environments of the same layout with several start states, seeded with   *)
(* the same value and reset the same number of times since, have sampled    *)
(* the same sequence of start states.                                       *)
C20_SeedPinsStarts ==
    ( /\ np_random \in SeedValues
      /\ twin.np_random = np_random
      /\ Len(sampled) = Len(twin.sampled) )
        => sampled = twin.sampled

----------------------------------------------------------------------------
(* Vocabulary of the text-layout properties: the layout that was read *)
TextLines == ctor.custom_world
TextCells == {<<r, c>> : r \in 1 .. Len(TextLines), c \in 1 .. 3} \cap
             UNION {{<<r, c>> : c \in 1 .. Len(TextLines[r])} : r \in 1 .. Len(TextLines)}
TextHas(ch) == \E rc \in TextCells : TextLines[rc[1]][rc[2]] = ch
TextRagged == \E r \in 1 .. Len(TextLines) : Len(TextLines[r]) # Len(TextLines[1])
TextBadChar ==
    \E rc \in TextCells :
        TextLines[rc[1]][rc[2]] \notin {"o", "#", "G", "L", "l", "a", "m", "x"}
\* ids of the cells of a rectangular layout that hold ch: row r, column c
\* (from 0) is id r * C + c
TextIds(ch) ==
    {(rc[1] - 1) * Len(TextLines[1]) + (rc[2] - 1) :
        rc \in {q \in TextCells : TextLines[q[1]][q[2]] = ch}}

(* C21: loading a text layout raises a format error if a row's length       *)
(* differs from the first row's, if a character is not one of               *)
(* o # G L l a m x, if no x is present or if no G is present; a layout      *)
(* passing all four checks loads without an error.                          *)
C21_FormatErrors ==
    Called =>
        (Rejected <=> (TextRagged \/ TextBadChar \/ ~TextHas("x") \/ ~TextHas("G")))

\* a layout rejected for nothing but a short second row
C21_Witness ==
    /\ Rejected
    /\ TextRagged
    /\ ~TextBadChar /\ TextHas("x") /\ TextHas("G")

(* C22: a loaded text layout of R rows and C columns gives a world of       *)
(* height R and width C in which the character at row r, column c defines   *)
(* state id r * C + c: walls, goals, lava, apples, lemons, melons and start *)
(* states are exactly the ids of their characters, whatever the constructor *)
(* was given before; rows "xo", "oG" give start {0} and goal {3}.           *)
C22_TextIds ==
    Constructed =>
        /\ y_max = Len(TextLines)
        /\ x_max = Len(TextLines[1])
        /\ wall_indices = TextIds("#")
        /\ goal_states = TextIds("G")
        /\ lava_states = TextIds("L")
        /\ apples = TextIds("a") /\ lemons = TextIds("l") /\ melons = TextIds("m")
        /\ initial_states = TextIds("x")
        /\ ret.op = "init" =>
                current_apples = apples /\ current_lemons = lemons /\ current_melons = melons
        /\ DOMAIN reward_matrix = 0 .. (Len(TextLines) * Len(TextLines[1]) - 1)
        /\ TextLines = <<<<"x", "o">>, <<"o", "G">>>> =>
                initial_states = {0} /\ goal_states = {3}

\* rows "xo", "oG" read into an environment that was constructed with walls,
\* lava and fruit on a 2 x 4 grid
C22_Witness ==
    /\ Constructed
    /\ ctor.grid_shape = <<2, 4>>
    /\ TextLines = <<<<"x", "o">>, <<"o", "G">>>>
    /\ x_max = 2 /\ y_max = 2
    /\ initial_states = {0} /\ goal_states = {3}
    /\ wall_indices = {} /\ lava_states = {} /\ Template = {}

(* C23: round trip: for every valid text layout, loading it and rendering   *)
(* the freshly loaded environment in text mode reproduces the original      *)
(* character at every wall, goal, lava, apple, lemon and melon cell and     *)
(* shows no such character anywhere else (start cells and the agent marker  *)
(* are ignored).                                                            *)
C23_RoundTrip ==
    ret.op = "render" =>
        /\ Len(ret.outfile) = Len(TextLines)
        /\ \A r \in 1 .. Len(TextLines) : Len(ret.outfile[r]) = Len(TextLines[r])
        /\ \A rc \in TextCells :
            LET orig == TextLines[rc[1]][rc[2]]
                out  == ret.outfile[rc[1]][rc[2]]
            IN  IF orig \in {"#", "G", "L", "a", "l", "m"}
                THEN out = orig
                ELSE out \in {"o", "x"}

\* a rendered 2 x 2 layout with a wall and a fruit next to its start and goal
C23_Witness ==
    /\ ret.op = "render"
    /\ Len(TextLines) = 2 /\ Len(TextLines[1]) = 2
    /\ TextHas("#")
    /\ TextHas("a") \/ TextHas("l") \/ TextHas("m")
    /\ ret.outfile # <<<<"o", "o">>, <<"o", "o">>>>

----------------------------------------------------------------------------
(* C24: step, look_step_ahead and reset never modify the wall set, the      *)
(* start, goal and lava sets or the fruit templates; only the working fruit *)
(* lists change, each stays a subset of its template and only shrinks       *)
(* between two resets.                                                      *)
C24_TemplatesFrame ==
    [][ /\ <<wall_indices, initial_states, goal_states, lava_states>>' =
                <<wall_indices, initial_states, goal_states, lava_states>>
        /\ <<lemons, apples, melons>>' = <<lemons, apples, melons>>
        /\ current_lemons' \subseteq lemons
        /\ current_apples' \subseteq apples
        /\ current_melons' \subseteq melons
        /\ ret'.op # "reset" =>
            /\ current_lemons' \subseteq current_lemons
            /\ current_apples' \subseteq current_apples
            /\ current_melons' \subseteq current_melons
      ]_vars

\* a step of the second episode has collected a fruit
C24_Witness ==
    /\ n_resets > 0
    /\ ret.op = "step"
    /\ Working # Template
    /\ Working \subseteq Template

----------------------------------------------------------------------------
(* C25: ids and coordinates are a row-major bijection: in a world of width  *)
(* W and height H state id s has coordinates (s mod W, s div W), every      *)
(* (x, y) with 0 <= x < W, 0 <= y < H belongs to exactly one id, and the    *)
(* four move rules use the same mapping (UP / DOWN change y by 1 and keep   *)
(* x, LEFT / RIGHT change x by 1 and keep y), also after the world was      *)
(* rebuilt from a text layout of a different shape.                         *)
C25_Delta(action) ==
    CASE action = UP    -> <<0, -1>>
      [] action = RIGHT -> <<1, 0>>
      [] action = DOWN  -> <<0, 1>>
      [] action = LEFT  -> <<-1, 0>>

C25_RowMajor ==
    Constructed =>
        /\ \A s \in States :
            /\ world(s) = <<s % x_max, s \div x_max>>
            /\ world(s)[1] \in 0 .. (x_max - 1) /\ world(s)[2] \in 0 .. (y_max - 1)
        /\ \A x \in 0 .. (x_max - 1), y \in 0 .. (y_max - 1) :
            Cardinality({s \in States : world(s) = <<x, y>>}) = 1
        /\ Looked =>
            LET from   == <<args.state % x_max, args.state \div x_max>>
                to     == <<ret.next_state % x_max, ret.next_state \div x_max>>
                target == <<from[1] + C25_Delta(args.action)[1],
                            from[2] + C25_Delta(args.action)[2]>>
                inside == target[1] \in 0 .. (x_max - 1) /\ target[2] \in 0 .. (y_max - 1)
                open   == target[2] * x_max + target[1] \notin wall_indices
                held   == args.care_about_terminal
                            /\ args.state \in goal_states \cup lava_states
            IN  to = IF inside /\ open /\ ~held THEN target ELSE from

\* a DOWN move in a 2 x 2 world read from text into an environment that was
\* constructed 2 x 4
C25_Witness ==
    /\ Constructed /\ Looked
    /\ ctor.grid_shape = <<2, 4>>
    /\ x_max = 2 /\ y_max = 2
    /\ args.action = DOWN
    /\ ret.next_state = args.state + 2

----------------------------------------------------------------------------
(* C26: construction fails with a configuration error whenever the          *)
(* requested width or height is zero or negative; no environment with a     *)
(* non-positive dimension is ever constructed.                              *)
C26_PositiveDimensions ==
    /\ (Called /\ (ctor.grid_shape[1] <= 0 \/ ctor.grid_shape[2] <= 0)) => Rejected
    /\ Constructed => x_max > 0 /\ y_max > 0

\* a call with width 0 and no other argument, rejected
C26_Witness ==
    /\ Rejected
    /\ ctor.grid_shape = <<0, 2>>
    /\ ctor.placements = <<>>

----------------------------------------------------------------------------
(* C27: with care_about_terminal=False look_step_ahead applies the move     *)
(* rule, with boundary and wall blocking, even when the input state is a    *)
(* goal or lava state: a terminal input state is not absorbing and the      *)
(* result is that of a non-terminal state at that position.                 *)
C27_NotAbsorbing ==
    (Looked /\ ~args.care_about_terminal /\ args.state \in Terminal) =>
        /\ ret.next_state =
                IF /\ ~BeyondEdge(args.state, args.action)
                   /\ Neighbour(args.state, args.action) \notin wall_indices
                THEN Neighbour(args.state, args.action)
                ELSE args.state
        /\ ret.done = (ret.next_state \in Terminal)

\* a look-ahead that leaves a terminal state for an ordinary cell
C27_Witness ==
    /\ Looked /\ ~args.care_about_terminal
    /\ args.state \in Terminal
    /\ ret.next_state # args.state
    /\ ret.done = FALSE

----------------------------------------------------------------------------
(* C28: in every reachable state of a constructed environment the reward    *)
(* matrix entry of every goal state is the goal reward and that of every    *)
(* lava state the lava penalty; collecting fruit never changes a terminal   *)
(* state's reward.                                                          *)
C28_TerminalRewards ==
    /\ \A g \in goal_states : reward_matrix[g] = TERMINAL_GOAL_REWARD
    /\ \A l \in lava_states : reward_matrix[l] = LAVA_REWARD

----------------------------------------------------------------------------
(* C29: in every reachable state of a constructed environment current_state *)
(* is a state id in [0, size) and is not a wall: after construction, after  *)
(* every reset and after every step.                                        *)
C29_CurrentStateOnGrid ==
    Constructed =>
        /\ current_state \in 0 .. (x_max * y_max - 1)
        /\ current_state \notin wall_indices

----------------------------------------------------------------------------
(* C30: after any sequence of step and reset calls the done flag is true    *)
(* exactly when current_state is a goal or lava state, also immediately     *)
(* after a reset that samples a start state.                                *)
C30_DoneIffTerminal ==
    (n_steps > 0 \/ n_resets > 0) =>
        (done <=> current_state \in goal_states \cup lava_states)

(* C30 as amended: once a step has been taken in the episode the done flag  *)
(* is true exactly when current_state is a goal or lava state; after        *)
(* construction and after a reset, before any step, done is false whatever  *)
(* the start state is, a start state on a goal or lava state included.      *)
C30_DoneFollowsStep ==
    IF n_steps > 0
    THEN done <=> current_state \in goal_states \cup lava_states
    ELSE done = FALSE

C30_Witness ==
    /\ n_resets > 0
    /\ n_steps > 0
    /\ done
    /\ current_state \in goal_states
    /\ previous_state \notin goal_states \cup lava_states

----------------------------------------------------------------------------
(* C31: when step raises an error for an invalid action the episode state   *)
(* is left exactly as it was before the call: current_state,                *)
(* previous_state, done, the history buffer, the working fruit sets and     *)
(* the reward matrix are all unchanged.                                     *)
C31_FailedStepFrame ==
    [][ret'.op = "IndexError" =>
            UNCHANGED <<current_state, previous_state, done, last_n_states,
                        current_lemons, current_apples, current_melons,
                        reward_matrix>>]_vars

----------------------------------------------------------------------------
(* C32: running single_step_policy_evaluation or                            *)
(* greedy_policy_from_value_function on an environment that contains fruit  *)
(* leaves the working fruit sets and the reward matrix unchanged, so a      *)
(* later real step onto a fruit cell still yields step cost plus fruit      *)
(* bonus, and the reward the sweep reads for a state is the same wherever   *)
(* in the order of states and actions it is read.                           *)
C32_SweepLeavesFruit ==
    /\ sweep_started =>
        /\ current_lemons = lemons /\ current_apples = apples /\ current_melons = melons
        /\ reward_matrix = FreshMatrix
        /\ ret.reward = FreshMatrix[ret.next_state]
    /\ (Stepped /\ ret.next_state \in Template \ Terminal) =>
        ret.reward = MOVEMENT_REWARD + Bonus(ret.next_state)

----------------------------------------------------------------------------
(* C33: td_episodic_n_step_evaluation evaluates the policy in n_episodes    *)
(* episodes: in each of the n_episodes iterations it runs                   *)
(* td_single_n_step_evaluation at least once, starting from a non-terminal  *)
(* state and repeating until a terminal state is reached, and then resets   *)
(* the environment.                                                         *)
C33_EveryEpisodeEvaluates ==
    /\ (td.pc = "while" /\ td.episode < td.n_episodes /\ ~td.evaluated) => ~td.done
    /\ (td.pc = "n_step_return" /\ td.step = 0 /\ td.episode > 0) =>
            td.last_state \notin goal_states \cup lava_states
    /\ (td.pc = "while" /\ td.done) => td.curr_state \in goal_states \cup lava_states
    /\ td.pc = "return" => n_resets = td.n_episodes

----------------------------------------------------------------------------
(* C34: in every successfully constructed environment, also one whose world *)
(* was replaced by a text layout of another shape than grid_shape, the size *)
(* of observation_space equals world.size, and the wall grid and the reward *)
(* matrix have exactly world.size entries.                                  *)
C34_SizesAgree ==
    Constructed =>
        /\ observation_space = x_max * y_max
        /\ DOMAIN wall_grid = 0 .. (x_max * y_max - 1)
        /\ DOMAIN reward_matrix = 0 .. (x_max * y_max - 1)

----------------------------------------------------------------------------
\* cells between two states of the simple grid, along the axes
C35_Distance(s, t) ==
    LET dx == gridworld_world(s)[1] - gridworld_world(t)[1]
        dy == gridworld_world(s)[2] - gridworld_world(t)[2]
    IN  (IF dx < 0 THEN -dx ELSE dx) + (IF dy < 0 THEN -dy ELSE dy)

(* C35: in the simple GridWorldEnv (column-major ids, id = x * height + y)  *)
(* of any width and height, non-square grids included, for every non-wall   *)
(* state in [0, size) and every action 0..3, look_step_ahead returns a      *)
(* next_state in [0, size) that is not a wall, moves by at most one cell    *)
(* along exactly one axis, and returns the input state itself when that     *)
(* state is terminal.                                                       *)
C35_SimpleLook ==
    (gridworld.ret.op # "init" /\ gridworld.call.state \notin gridworld.walls) =>
        /\ gridworld.ret.op = "look_step_ahead"
        /\ gridworld.ret.next_state \in 0 .. (gridworld_size - 1)
        /\ gridworld.ret.next_state \notin gridworld.walls
        /\ C35_Distance(gridworld.call.state, gridworld.ret.next_state) <= 1
        /\ gridworld.call.state \in gridworld.terminal_states =>
                gridworld.ret.next_state = gridworld.call.state

\* a move to the next column of a grid that is not square, past a wall
C35_Witness ==
    /\ gridworld.x_max = 3 /\ gridworld.y_max = 2
    /\ gridworld.walls # {}
    /\ gridworld.ret.op = "look_step_ahead"
    /\ gridworld.call.state \notin gridworld.walls
    /\ gridworld.call.action = 1
    /\ gridworld.ret.next_state = gridworld.call.state + 2

====
